---- MODULE Spec2Model ----
(***************************************************************************)
(* Bhaii AI Studio: the chat session (App + ChatInterface), the preference *)
(* store (localStorage under STORAGE_KEY_USER_PREFS) and the Gemini        *)
(* gateway (services/geminiService.ts).                                    *)
(*                                                                         *)
(* A text is a sequence of tokens (TLA+ strings); a fixed message of the   *)
(* source is cut into tokens at the places its substrings are searched     *)
(* for, so that String.includes is a contiguous-subsequence test and       *)
(* String.trim drops leading and trailing whitespace tokens.               *)
(*                                                                         *)
(* React: a handler reads the state of the latest render, and the effects  *)
(* of the mounted components run before the next event; an action is a     *)
(* handler together with the effects it triggers.                          *)
(***************************************************************************)
EXTENDS Integers, Sequences, FiniteSets, TLC

\* ------------------------------------------------------------------ bounds
\* Accepted chat submissions in one run.
MaxSubmits == 2
\* Clock ticks in one run (Date.now() runs from ClockStart).
MaxTicks == 1
\* Page reloads in one run (SpecReload only).
MaxReloads == 1
\* Accepted chat submissions in one run of SpecViews.
MaxViewSubmits == 1
\* Date.now() when the page is opened, in milliseconds.
ClockStart == 998

\* ------------------------------------------------------------------- texts
IsSpace(t) == t \in {" ", "\n"}

\* String.prototype.trim
RECURSIVE TrimLeft(_)
TrimLeft(s) ==
  IF s = <<>> THEN <<>>
  ELSE IF IsSpace(Head(s)) THEN TrimLeft(Tail(s)) ELSE s

RECURSIVE TrimRight(_)
TrimRight(s) ==
  IF s = <<>> THEN <<>>
  ELSE IF IsSpace(s[Len(s)]) THEN TrimRight(SubSeq(s, 1, Len(s) - 1)) ELSE s

Trim(s) == TrimRight(TrimLeft(s))

\* String.prototype.includes
Includes(s, sub) ==
  \E i \in 0..(Len(s) - Len(sub)) : SubSeq(s, i + 1, i + Len(sub)) = sub

\* a || b on strings: the empty string is falsy
OrElse(a, b) == IF a # <<>> THEN a ELSE b

\* ------------------------------------------------------------- constants
\* constants.ts
WELCOME_MESSAGES_0 == <<"Namaste! Kya haal hai, mere bhai/behen? Kaise ho tum?">>

\* ChatInterface: the welcome effect's text
WelcomeText(userName) ==
  IF userName # <<>>
    THEN <<"Namaste ">> \o userName \o <<"! Kya haal hai, mere bhai/behen? Kaise ho tum?">>
    ELSE WELCOME_MESSAGES_0

\* ChatInterface.handleSendMessage: the two fixed lines
OopsLine == <<"Oops, kuch error ho gaya.">>
FallbackLine == <<"Bhaii ko kuch dikkat ho gayi. Dobara try karo na.">>

\* geminiService.ts: the fixed texts
ApiKeyNotSetMessage ==
  <<"API_KEY is not set. Please ensure it is configured in your environment.">>
NotFoundNeedle == <<"Requested entity was not found">>
NotFoundNeedleHD == <<"Requested entity was not found", ".">>
ApiKeyMarker == <<"API key issue">>
ChatApiKeyError ==
  <<"API key issue", ". Please select your API key again from the dialog.">>
ChatGenericError == <<"Sorry, kuch gadbad ho gayi. Can you please try again?">>
EditApiKeyError ==
  <<"API key issue", ". Please select your API key again from the dialog.">>
EditGenericError == <<"Failed to edit image. Network issue or invalid prompt?">>
EditNoImageError ==
  <<"Could not generate edited image. Please try a different prompt.">>
HDApiKeyError ==
  <<"API key issue",
    ": HD Image generation requires billing. Please ensure your API key is enabled for billing and re-select it.">>
HDPromptError == <<"Please provide a text prompt for image generation.">>
HDNoImageError == <<"Could not generate HD image. Please try a different prompt.">>
HDGenericPrefix == <<"Failed to generate HD image: ">>
UnknownError == <<"Unknown error">>

\* ------------------------------------------------------------- the gateway
\* The environment of one gateway call:
\*   apiKey  process.env.API_KEY is set
\*   remote  what the remote service does when it is called
\*   dialog  window.aistudio.openSelectKey: "ok" resolves, "rejects" is called
\*           and rejects, "missing" is not there (the call is a TypeError)
Dialogs == {"ok", "rejects", "missing"}

\* the remote service answers (the chunks of a chat stream, the image part of
\* an image response: <<>> or <<the part>>) or raises an error with a message
Answer(chunks, image) ==
  [kind |-> "answer", chunks |-> chunks, image |-> image, message |-> <<>>]
Stream(chunks) == Answer(chunks, <<>>)
Throw(message) == [kind |-> "throw", chunks |-> <<>>, image |-> <<>>, message |-> message]

\* the messages of the errors the remote service raises in the model; the
\* empty message is an error without one
ErrorMessages ==
  { <<"Requested entity was not found", ".">>,
    <<"Requested entity was not found", ": models/x">>,
    <<"quota exceeded">>,
    <<"network down">>,
    <<"API key issue", " reported upstream">>,
    <<>> }

\* getGeminiClient
ClientThrows(env) == ~env.apiKey

\* chatWithBhaii: history.map(...)
FormatHistory(history) ==
  [i \in 1..Len(history) |->
     [role |-> IF history[i].sender = "user" THEN "user" ELSE "model",
      text |-> history[i].text]]

\* chatWithBhaii: personalizedMessage
PersonalizedMessage(userName, message) ==
  IF userName # <<>> THEN userName \o <<" says: ">> \o message ELSE message

\* chatWithBhaii: for await (const chunk of streamResponse) fullText += c.text
RECURSIVE FullText(_)
FullText(chunks) ==
  IF chunks = <<>> THEN <<>>
  ELSE (IF Head(chunks) # <<>> THEN Head(chunks) ELSE <<>>) \o FullText(Tail(chunks))

\* what a gateway call gives its caller and does on the way
Returned(text, hasError, error, image, remoteCalls, dialogCalls) ==
  [threw |-> FALSE, text |-> text, hasError |-> hasError, error |-> error,
   imageUrl |-> image, remoteCalls |-> remoteCalls, dialogCalls |-> dialogCalls]
Raised(remoteCalls, dialogCalls) ==
  [threw |-> TRUE, text |-> <<>>, hasError |-> FALSE, error |-> <<>>,
   imageUrl |-> <<>>, remoteCalls |-> remoteCalls, dialogCalls |-> dialogCalls]

\* the catch blocks of chatWithBhaii and editImageWithGemini:
\* error.message && error.message.includes(needle), await openSelectKey()
CatchNotFound(message, needle) == message # <<>> /\ Includes(message, needle)

AfterDialog(dialog, apiKeyError, remoteCalls) ==
  CASE dialog = "ok" -> Returned(<<>>, TRUE, apiKeyError, <<>>, remoteCalls, 1)
    [] dialog = "rejects" -> Raised(remoteCalls, 1)
    [] OTHER -> Raised(remoteCalls, 0)

ChatCatch(message, dialog, remoteCalls) ==
  IF CatchNotFound(message, NotFoundNeedle)
    THEN AfterDialog(dialog, ChatApiKeyError, remoteCalls)
    ELSE Returned(<<>>, TRUE, ChatGenericError, <<>>, remoteCalls, 0)

chatWithBhaii(message, history, userName, env) ==
  IF ClientThrows(env) THEN ChatCatch(ApiKeyNotSetMessage, env.dialog, 0)
  ELSE IF env.remote.kind = "throw" THEN ChatCatch(env.remote.message, env.dialog, 1)
  ELSE Returned(Trim(FullText(env.remote.chunks)), FALSE, <<>>, <<>>, 1, 0)

\* what chatWithBhaii hands the remote chat: ai.chats.create({history}) and
\* sendMessageStream({message})
ChatSent(message, history, userName) ==
  [history |-> FormatHistory(history),
   message |-> PersonalizedMessage(userName, message)]

\* `data:${mimeType};base64,${data}`
DataUrl(image) == <<"data:", image.mimeType, ";base64,">> \o image.data

EditCatch(message, dialog, remoteCalls) ==
  IF CatchNotFound(message, NotFoundNeedle)
    THEN AfterDialog(dialog, EditApiKeyError, remoteCalls)
    ELSE Returned(<<>>, TRUE, EditGenericError, <<>>, remoteCalls, 0)

\* editImageWithGemini; env.readFails: blobToBase64 rejects (reader.onerror)
editImageWithGemini(imageFile, prompt, env) ==
  IF ClientThrows(env) THEN EditCatch(ApiKeyNotSetMessage, env.dialog, 0)
  ELSE IF env.readFails THEN EditCatch(<<>>, env.dialog, 0)
  ELSE IF env.remote.kind = "throw" THEN EditCatch(env.remote.message, env.dialog, 1)
  ELSE IF env.remote.image # <<>>
    THEN Returned(<<>>, FALSE, <<>>, DataUrl(env.remote.image[1]), 1, 0)
    ELSE Returned(<<>>, TRUE, EditNoImageError, <<>>, 1, 0)

HDCatch(message, dialog, remoteCalls) ==
  IF CatchNotFound(message, NotFoundNeedleHD)
    THEN AfterDialog(dialog, HDApiKeyError, remoteCalls)
    ELSE Returned(<<>>, TRUE, HDGenericPrefix \o OrElse(message, UnknownError),
                  <<>>, remoteCalls, 0)

\* if (!prompt): the prompt is not trimmed
HDPromptMissingUntrimmed(prompt) == prompt = <<>>

\* if (!prompt.trim())
HDPromptMissing(prompt) == Trim(prompt) = <<>>

generateHDImageWithGemini(prompt, aspectRatio, env) ==
  IF ClientThrows(env) THEN HDCatch(ApiKeyNotSetMessage, env.dialog, 0)
  ELSE IF HDPromptMissing(prompt) THEN Returned(<<>>, TRUE, HDPromptError, <<>>, 0, 0)
  ELSE IF env.remote.kind = "throw" THEN HDCatch(env.remote.message, env.dialog, 1)
  ELSE IF env.remote.image # <<>> /\ env.remote.image[1].data # <<>>
    THEN Returned(<<>>, FALSE, <<>>, DataUrl(env.remote.image[1]), 1, 0)
    ELSE Returned(<<>>, TRUE, HDNoImageError, <<>>, 1, 0)

AspectRatios == {"1:1", "3:4", "4:3", "9:16", "16:9"}

\* ------------------------------------------------------- dates and numbers
DigitChars == <<"0", "1", "2", "3", "4", "5", "6", "7", "8", "9">>

DigitValue(c) == (CHOOSE i \in 1..10 : DigitChars[i] = c) - 1

IsDigit(c) == \E i \in 1..10 : DigitChars[i] = c

\* Number.prototype.toString of a non-negative integer
RECURSIVE NumberToString(_)
NumberToString(n) ==
  IF n < 10 THEN <<DigitChars[n + 1]>>
  ELSE NumberToString(n \div 10) \o <<DigitChars[(n % 10) + 1]>>

\* A Date: a time value in milliseconds, or the Invalid Date (NaN)
ValidDate(ms) == [valid |-> TRUE, ms |-> ms]
InvalidDate == [valid |-> FALSE, ms |-> 0]

\* Date.prototype.toISOString within the first minute of the epoch:
\* 1970-01-01T00:00:ss.mmmZ
IsoPrefix == "1970-01-01T00:00:"
ToISOString(ms) ==
  <<IsoPrefix,
    DigitChars[((ms \div 10000) % 10) + 1], DigitChars[((ms \div 1000) % 10) + 1],
    ".",
    DigitChars[((ms \div 100) % 10) + 1], DigitChars[((ms \div 10) % 10) + 1],
    DigitChars[(ms % 10) + 1],
    "Z">>

\* Date.parse of a text: the time value, or NaN for what is no date
IsIsoText(s) ==
  /\ Len(s) = 8
  /\ s[1] = IsoPrefix /\ s[4] = "." /\ s[8] = "Z"
  /\ \A i \in {2, 3, 5, 6, 7} : IsDigit(s[i])
  /\ DigitValue(s[2]) < 6

DateParse(s) ==
  IF IsIsoText(s)
    THEN ValidDate(DigitValue(s[2]) * 10000 + DigitValue(s[3]) * 1000
                   + DigitValue(s[5]) * 100 + DigitValue(s[6]) * 10 + DigitValue(s[7]))
    ELSE InvalidDate

\* ---------------------------------------------------------- JSON and storage
\* A JSON value: null, a string, an array, an object; JMissing is a property
\* that is not there (undefined).
JNull == [t |-> "null"]
JMissing == [t |-> "missing"]
JStr(s) == [t |-> "string", s |-> s]
JArr(items) == [t |-> "array", items |-> items]

\* Date.prototype.toJSON: the ISO text, null for the Invalid Date
DateToJSON(d) == IF d.valid THEN JStr(ToISOString(d.ms)) ELSE JNull

\* new Date(v) of a parsed JSON value
NewDate(v) ==
  CASE v.t = "string" -> DateParse(v.s)
    [] v.t = "null" -> ValidDate(0)
    [] OTHER -> InvalidDate

\* JSON.stringify of a ChatMessage
MessageToJSON(msg) ==
  [t |-> "object", id |-> msg.id, sender |-> msg.sender, text |-> msg.text,
   timestamp |-> DateToJSON(msg.timestamp)]

\* localStorage under STORAGE_KEY_USER_PREFS: no item, an item that is no
\* JSON, or an item with its parsed value
Absent == [kind |-> "absent"]
NotJSON == [kind |-> "invalid"]
Item(value) == [kind |-> "json", value |-> value]

PrefsJSON(name, rememberMe, lastChat) ==
  [t |-> "object", name |-> name, rememberMe |-> rememberMe, lastChat |-> lastChat]

\* JSON.stringify(userPrefs) of the save effect
StringifyPrefs(userName, chatHistory) ==
  Item(PrefsJSON(userName, TRUE,
                 JArr([i \in 1..Len(chatHistory) |-> MessageToJSON(chatHistory[i])])))

\* the save effect without its else branch: nothing is removed
SaveEffectNoRemove(userName, rememberMe, chatHistory) ==
  StringifyPrefs(userName, chatHistory)

\* ChatInterface: the save effect
SaveEffect(userName, rememberMe, chatHistory) ==
  IF rememberMe THEN StringifyPrefs(userName, chatHistory) ELSE Absent

\* App load effect: msg => ({...msg, timestamp: new Date(msg.timestamp)})
LoadMessage(item) ==
  [id |-> item.id, sender |-> item.sender, text |-> item.text,
   timestamp |-> NewDate(item.timestamp)]

\* userPrefs.lastChat.map(...) throws: lastChat is no array, or an item is null
LastChatThrows(lastChat) ==
  \/ lastChat.t # "array"
  \/ \E i \in 1..Len(lastChat.items) : lastChat.items[i].t = "null"

\* App load effect, from the state [userName, rememberMe, chatHistory] of
\* useState: the state and the storage after it
LoadPrefs(stored, state) ==
  CASE stored.kind = "absent" -> [state |-> state, storage |-> stored]
    [] stored.kind = "invalid" -> [state |-> state, storage |-> Absent]
    [] stored.value.t # "object" -> [state |-> state, storage |-> Absent]
    [] OTHER ->
       LET prefs == stored.value
           named == [state EXCEPT !.userName = prefs.name,
                                  !.rememberMe = prefs.rememberMe]
       IN IF LastChatThrows(prefs.lastChat)
            THEN [state |-> named, storage |-> Absent]
            ELSE [state |-> [named EXCEPT !.chatHistory =
                               [i \in 1..Len(prefs.lastChat.items) |->
                                  LoadMessage(prefs.lastChat.items[i])]],
                  storage |-> stored]

\* ------------------------------------------------------------ the slideshow
\* SlideshowGenerator.tsx: MAX_SLIDES
MAX_SLIDES == 6

\* the timers window.setTimeout can hand out that are pending or remembered
\* at one time
MaxTimerId == 3
TimerIds == 1..MaxTimerId

\* the status lines and error texts of the SlideshowGenerator
StatusEnterText == "Enter text to create your animated slideshow!"
StatusPlaying == "Slideshow playing..."
StatusStopped == "Slideshow stopped. Ready for new input!"
StatusFinished == "Slideshow finished! You can generate another one."
ErrorNoValidSlides == <<"No valid slides generated. Please enter some text.">>
ErrorEnterSomeText == <<"Please enter some text for your slideshow.">>

\* inputText.split('\n')
RECURSIVE SplitLines(_)
SplitLines(s) ==
  IF \A i \in 1..Len(s) : s[i] # "\n" THEN <<s>>
  ELSE LET i == CHOOSE k \in 1..Len(s) : s[k] = "\n" /\ \A m \in 1..(k - 1) : s[m] # "\n"
       IN <<SubSeq(s, 1, i - 1)>> \o SplitLines(SubSeq(s, i + 1, Len(s)))

\* .map(line => line.trim())
TrimLines(lines) == [i \in 1..Len(lines) |-> Trim(lines[i])]

\* .filter(line => line.length > 0)
NonEmptyLine(line) == Len(line) > 0
FilterLines(lines) == SelectSeq(lines, NonEmptyLine)

\* .slice(0, count)
SliceFirst(lines, count) ==
  SubSeq(lines, 1, IF Len(lines) < count THEN Len(lines) ELSE count)

\* the lines cut to MAX_SLIDES before the blank ones are dropped
GeneratedSlidesCutFirst(inputText) ==
  FilterLines(TrimLines(SliceFirst(SplitLines(inputText), MAX_SLIDES)))

\* handleGenerate: generatedSlides
GeneratedSlides(inputText) ==
  SliceFirst(FilterLines(TrimLines(SplitLines(inputText))), MAX_SLIDES)

\* useState(...) and useRef(null) of the SlideshowGenerator; timeoutRef 0 is
\* null, error <<>> is null
ShowDefault ==
  [inputText |-> <<>>, slides |-> <<>>, currentSlideIndex |-> 0,
   isPlaying |-> FALSE, loading |-> FALSE, error |-> <<>>,
   statusMessage |-> StatusEnterText, timeoutRef |-> 0]

\* clearTimeout that clears nothing
ClearTimeoutNothing(timers, id) == timers

\* clearTimeout(id): the pending timer with that id is no longer pending
ClearTimeout(timers, id) == { t \in timers : t.id # id }

\* if (timeoutRef.current) clearTimeout(timeoutRef.current)
ClearRef(timers, ref) == IF ref # 0 THEN ClearTimeout(timers, ref) ELSE timers

\* window.setTimeout: a timer id that no pending timer has and that is not
\* the one remembered in timeoutRef
FreshTimer(timers, ref) ==
  CHOOSE id \in TimerIds :
    /\ id # ref /\ \A t \in timers : t.id # id
    /\ \A other \in TimerIds :
         (other # ref /\ \A t \in timers : t.id # other) => id <= other

\* The slideshow with its pending timers: [show, timers].
\* stopSlideshow
stopSlideshow(st) ==
  [show |-> [st.show EXCEPT !.timeoutRef = 0, !.isPlaying = FALSE,
                            !.statusMessage = StatusStopped],
   timers |-> ClearRef(st.timers, st.show.timeoutRef)]

\* startSlideshow
startSlideshow(st, newSlides) ==
  IF Len(newSlides) = 0
    THEN [st EXCEPT !.show.error = ErrorNoValidSlides, !.show.isPlaying = FALSE]
    ELSE [st EXCEPT !.show.slides = newSlides, !.show.currentSlideIndex = 0,
                    !.show.isPlaying = TRUE, !.show.statusMessage = StatusPlaying]

\* the timer effect after a render: it runs when isPlaying, currentSlideIndex
\* or slides changed (setSlides is always given a new array); the cleanup of
\* its last run comes first. A pending timer remembers the slides it was
\* made for (n: their number).
TimerEffect(before, after, slidesSet) ==
  IF /\ before.isPlaying = after.show.isPlaying
     /\ before.currentSlideIndex = after.show.currentSlideIndex
     /\ ~slidesSet
    THEN after
    ELSE LET cleaned == ClearRef(after.timers, after.show.timeoutRef)
         IN IF after.show.isPlaying /\ Len(after.show.slides) > 0
              THEN LET id == FreshTimer(cleaned, after.show.timeoutRef)
                   IN [show |-> [after.show EXCEPT !.timeoutRef = id],
                       timers |-> cleaned \cup {[id |-> id, n |-> Len(after.show.slides)]}]
              ELSE IF ~after.show.isPlaying /\ after.show.timeoutRef # 0
                THEN [show |-> [after.show EXCEPT !.timeoutRef = 0], timers |-> cleaned]
                ELSE [after EXCEPT !.timers = cleaned]

\* handleGenerate, and the timer effect after it
handleGenerate(st) ==
  LET stopped == stopSlideshow([st EXCEPT !.show.loading = TRUE, !.show.error = <<>>])
      generatedSlides == GeneratedSlides(st.show.inputText)
      done == IF Len(generatedSlides) = 0
                THEN [stopped EXCEPT !.show.error = ErrorEnterSomeText,
                                     !.show.loading = FALSE]
                ELSE [startSlideshow(stopped, generatedSlides) EXCEPT !.show.loading = FALSE]
  IN TimerEffect(st.show, done, Len(generatedSlides) > 0)

\* handleClear, and the timer effect after it
handleClear(st) ==
  LET stopped == stopSlideshow(st)
      done == [stopped EXCEPT !.show.inputText = <<>>, !.show.slides = <<>>,
                              !.show.currentSlideIndex = 0, !.show.error = <<>>,
                              !.show.statusMessage = StatusEnterText,
                              !.show.loading = FALSE]
  IN TimerEffect(st.show, done, TRUE)

\* prevIndex < slides.length, one slide too far
HasNextSlidePastEnd(prevIndex, n) == prevIndex < n

\* the timer's callback: prevIndex < slides.length - 1
HasNextSlide(prevIndex, n) == prevIndex < n - 1

\* the timer fires: its callback, and the timer effect after it
TimerCallback(st, timer) ==
  LET popped == [st EXCEPT !.timers = st.timers \ {timer}]
      done == IF HasNextSlide(st.show.currentSlideIndex, timer.n)
                THEN [popped EXCEPT !.show.currentSlideIndex = @ + 1]
                ELSE [stopSlideshow(popped) EXCEPT !.show.statusMessage = StatusFinished,
                                                 !.show.currentSlideIndex = 0]
  IN TimerEffect(st.show, done, FALSE)

\* the cleanup of the timer effect when the SlideshowGenerator is unmounted
UnmountSlideshow(st) == ClearRef(st.timers, st.show.timeoutRef)

\* ------------------------------------------- the image editor and HD views
\* the error texts and status lines of ImageEditor and HDImageGenerator
EditFileError == <<"Please select a valid image file (jpeg, png, gif, webp).">>
EditValidationError == <<"Please upload an image and provide an editing prompt.">>
EditUnexpectedError == <<"An unexpected error occurred during image editing.">>
HDSelectKeyError == <<"Please select your API key first.">>
HDValidationError == <<"Please provide a text prompt to generate an image.">>
HDFailedError == <<"Failed to generate HD image.">>
HDUnexpectedPrefix == <<"An unexpected error occurred: ">>
HDStatusSelectKey ==
  "Please select your API key for HD image generation (billing required)."
HDStatusReady == "Ready to generate HD images!"

\* the test of the file type left out: any file accepted
IsImageTypeAny(type) == TRUE

\* file.type.startsWith('image/')
IsImageType(type) == Len(type) > 0 /\ type[1] = "image/"

\* URL.createObjectURL(file)
ObjectUrl(file) == <<"blob:", file.name>>

\* useState(...) of ImageEditor; selectedFile <<>> is null, a url or an error
\* <<>> is null
EditorDefault ==
  [selectedFile |-> <<>>, imagePrompt |-> <<>>, originalImageUrl |-> <<>>,
   editedImageUrl |-> <<>>, loading |-> FALSE, error |-> <<>>]

\* ImageEditor.handleFileChange; files is e.target.files: <<>> or <<file>>
handleFileChange(ed, files) ==
  IF files # <<>> /\ IsImageType(files[1].type)
    THEN [ed EXCEPT !.selectedFile = files, !.originalImageUrl = ObjectUrl(files[1]),
                    !.editedImageUrl = <<>>, !.error = <<>>]
    ELSE [ed EXCEPT !.selectedFile = <<>>, !.originalImageUrl = <<>>,
                    !.error = EditFileError]

\* handleEditImage: !selectedFile || imagePrompt.trim() === ''
EditInvalid(ed) == ed.selectedFile = <<>> \/ Trim(ed.imagePrompt) = <<>>

\* ImageEditor.handleEditImage up to its await: the view's state, and the
\* calls of editImageWithGemini it makes
handleEditImage(ed) ==
  IF EditInvalid(ed)
    THEN [view |-> [ed EXCEPT !.error = EditValidationError], calls |-> {}]
    ELSE [view |-> [ed EXCEPT !.loading = TRUE, !.error = <<>>, !.editedImageUrl = <<>>],
          calls |-> {[imageFile |-> ed.selectedFile, prompt |-> ed.imagePrompt,
                      live |-> TRUE]}]

\* handleEditImage after its await
EditSettled(ed, result) ==
  [(IF result.threw THEN [ed EXCEPT !.error = EditUnexpectedError]
    ELSE IF result.imageUrl # <<>> THEN [ed EXCEPT !.editedImageUrl = result.imageUrl]
    ELSE IF result.hasError /\ result.error # <<>> THEN [ed EXCEPT !.error = result.error]
    ELSE ed)
   EXCEPT !.loading = FALSE]

\* ImageEditor.handleClear
handleClearEditor(ed) ==
  [ed EXCEPT !.selectedFile = <<>>, !.imagePrompt = <<>>, !.originalImageUrl = <<>>,
             !.editedImageUrl = <<>>, !.error = <<>>]

\* useState(...) of HDImageGenerator; checking: the mount effect's
\* hasSelectedApiKey() has not answered yet
HDDefault ==
  [prompt |-> <<>>, aspectRatio |-> "1:1", generatedImageUrl |-> <<>>,
   loading |-> FALSE, statusMessage |-> "", error |-> <<>>,
   apiKeySelected |-> FALSE, checking |-> FALSE]

\* the mount effect of HDImageGenerator: checkApiKey after its await
checkApiKey(view, selected) ==
  [view EXCEPT !.apiKeySelected = selected, !.checking = FALSE,
               !.statusMessage = IF selected THEN HDStatusReady ELSE HDStatusSelectKey]

\* handleGenerateImage: !apiKeySelected, then prompt.trim() === ''
HDInvalid(view) == ~view.apiKeySelected \/ Trim(view.prompt) = <<>>

\* HDImageGenerator.handleGenerateImage up to its await
handleGenerateImage(view) ==
  IF HDInvalid(view)
    THEN [view |-> [view EXCEPT !.error = IF ~view.apiKeySelected THEN HDSelectKeyError
                                          ELSE HDValidationError],
          calls |-> {}]
    ELSE [view |-> [view EXCEPT !.loading = TRUE, !.error = <<>>,
                                !.generatedImageUrl = <<>>,
                                !.statusMessage = "Generating HD image... This may take a moment."],
          calls |-> {[prompt |-> Trim(view.prompt), aspectRatio |-> view.aspectRatio,
                      live |-> TRUE]}]

\* handleGenerateImage after its await; a raised error has no message in the
\* model (the TypeError and the rejection of the dialog)
HDSettled(view, result) ==
  [(IF result.threw
      THEN [view EXCEPT !.error = HDUnexpectedPrefix \o UnknownError, !.statusMessage = ""]
    ELSE IF result.imageUrl # <<>>
      THEN [view EXCEPT !.generatedImageUrl = result.imageUrl,
                        !.statusMessage = "HD image generated successfully!"]
    ELSE IF result.hasError /\ result.error # <<>>
      THEN IF Includes(result.error, ApiKeyMarker)
             THEN [view EXCEPT !.error = result.error, !.apiKeySelected = FALSE,
                               !.statusMessage =
                                 "API key issue: HD image generation requires billing. Please ensure your API key is enabled for billing and re-select it."]
             ELSE [view EXCEPT !.error = result.error, !.statusMessage = ""]
    ELSE [view EXCEPT !.error = HDFailedError, !.statusMessage = ""])
   EXCEPT !.loading = FALSE]

\* HDImageGenerator.handleClear
handleClearHD(view) ==
  [view EXCEPT !.prompt = <<>>, !.aspectRatio = "1:1", !.generatedImageUrl = <<>>,
               !.loading = FALSE, !.error = <<>>,
               !.statusMessage = IF view.apiKeySelected THEN HDStatusReady
                                 ELSE HDStatusSelectKey]

\* ------------------------------------------------------------ the chat app
VARIABLES
  phase,          \* "boot" until the App load effect has run, then "running"
  storage,        \* localStorage[STORAGE_KEY_USER_PREFS]
  apiKey,         \* process.env.API_KEY is set
  now,            \* Date.now()
  activeView,     \* App: activeView
  userName,       \* App: userName
  rememberMe,     \* App: rememberMe
  chatHistory,    \* App: chatHistory
  inputMessage,   \* ChatInterface: inputMessage (of the mounted instance)
  loading,        \* ChatInterface: loading (of the mounted instance)
  pending,        \* the chatWithBhaii calls that have not settled
  submits,        \* accepted submissions so far
  reloads,        \* page reloads so far
  lastSettled,    \* <<>>, or <<what the last settled call did>>
  lastSaved,      \* <<>>, or <<the state the stored item was written from>>
  gwIn,           \* SpecGateway: the arguments and environment of the calls
  gwChat,         \* SpecGateway: <<>>, or <<what chatWithBhaii did>>
  gwEdit,         \* SpecGateway: <<>>, or <<what editImageWithGemini did>>
  gwHD,           \* SpecGateway: <<>>, or <<what generateHDImageWithGemini did>>
  show,           \* SlideshowGenerator: its state and timeoutRef
  scheduled,      \* the timers of window.setTimeout that are pending
  firings,        \* timers that fired since the slideshow was last started
  stopped,        \* how the slideshow last left Playing: clear, finish, unmount
  editor,         \* ImageEditor: its state
  edPending,      \* the editImageWithGemini calls that have not settled
  hd,             \* HDImageGenerator: its state
  hdPending,      \* the generateHDImageWithGemini calls that have not settled
  editedFor,      \* <<>>, or <<the file the edited image on display was made from>>
  keyIssue        \* a generation reported the API key issue, and
                  \* handleSelectApiKey has not completed since

chatVars == <<phase, storage, apiKey, now, activeView, userName, rememberMe,
              chatHistory, inputMessage, loading, pending, submits, reloads,
              lastSettled, lastSaved>>

gwVars == <<gwIn, gwChat, gwEdit, gwHD>>

slideVars == <<show, scheduled, firings, stopped>>

viewVars == <<editor, edPending, hd, hdPending, editedFor, keyIssue>>

vars == <<chatVars, gwVars, slideVars, viewVars>>

Views == {"home", "chat", "image-editor", "slideshow-generator", "hd-image-generator"}

\* what the user types
InputTexts == { <<" ">>, <<" ", "hi", " ">> }
Names == { <<>>, <<"Ann">> }

\* what the remote chat does
ChatRemotes ==
  { Stream(<<>>),
    Stream(<< <<" ">>, <<"Bilkul", "!">>, <<>>, <<"\n">> >>),
    Throw(<<"Requested entity was not found", ".">>),
    Throw(<<"quota exceeded">>) }

\* the environments a chat call settles in: the dialog matters after a throw
SettleEnvs ==
  { e \in [remote : ChatRemotes, dialog : Dialogs] :
      e.remote.kind = "throw" \/ e.dialog = "ok" }

\* what the storage holds when the page is opened
StoredMessage(id, sender, text, timestamp) ==
  [t |-> "object", id |-> id, sender |-> sender, text |-> text, timestamp |-> timestamp]

InitialStored ==
  { Absent,
    NotJSON,
    Item(JNull),
    Item(PrefsJSON(<<"Ann">>, TRUE, JMissing)),
    Item(PrefsJSON(<<"Ann">>, TRUE, JArr(<< JNull >>))),
    Item(PrefsJSON(<<>>, FALSE, JArr(<<>>))),
    Item(PrefsJSON(<<"Ann">>, TRUE,
           JArr(<< StoredMessage(<<"welcome">>, "bhaii", WelcomeText(<<"Ann">>),
                                 JStr(ToISOString(412))) >>))),
    Item(PrefsJSON(<<"Ann">>, TRUE,
           JArr(<< StoredMessage(<<"4", "1", "2">>, "user", <<"hi">>,
                                 JStr(<<"yesterday">>)) >>))) }

\* useState(...) of App
DefaultState == [userName |-> <<>>, rememberMe |-> FALSE, chatHistory |-> <<>>]

AppState == [userName |-> userName, rememberMe |-> rememberMe, chatHistory |-> chatHistory]

\* the views other than the chat before they are mounted
ViewsInit ==
  /\ show = ShowDefault
  /\ scheduled = {}
  /\ firings = 0
  /\ stopped = "none"
  /\ editor = EditorDefault
  /\ edPending = {}
  /\ hd = HDDefault
  /\ hdPending = {}
  /\ editedFor = <<>>
  /\ keyIssue = FALSE

Init ==
  /\ ViewsInit
  /\ phase = "boot"
  /\ storage \in InitialStored
  /\ apiKey \in BOOLEAN
  /\ now = ClockStart
  /\ activeView = "home"
  /\ userName = DefaultState.userName
  /\ rememberMe = DefaultState.rememberMe
  /\ chatHistory = DefaultState.chatHistory
  /\ inputMessage = <<>>
  /\ loading = FALSE
  /\ pending = {}
  /\ submits = 0
  /\ reloads = 0
  /\ lastSettled = <<>>
  /\ lastSaved = <<>>
  /\ gwIn = <<>>
  /\ gwChat = <<>>
  /\ gwEdit = <<>>
  /\ gwHD = <<>>

\* the state the save effect wrote the item from, when it wrote one
SavedFrom(name, remember, history) ==
  IF remember
    THEN << [userName |-> name, rememberMe |-> remember, chatHistory |-> history] >>
    ELSE <<>>

\* App: the load effect, on mount
AppMount ==
  /\ phase = "boot"
  /\ LET loaded == LoadPrefs(storage, AppState)
     IN /\ userName' = loaded.state.userName
        /\ rememberMe' = loaded.state.rememberMe
        /\ chatHistory' = loaded.state.chatHistory
        /\ storage' = loaded.storage
        /\ lastSaved' = IF loaded.storage = Absent THEN <<>> ELSE lastSaved
  /\ phase' = "running"
  /\ UNCHANGED <<apiKey, now, activeView, inputMessage, loading, pending, submits,
                 reloads, lastSettled>>
  /\ UNCHANGED <<gwVars, slideVars, viewVars>>

\* time passes
Tick ==
  /\ phase = "running"
  /\ now < ClockStart + MaxTicks
  /\ now' = now + 1
  /\ UNCHANGED <<phase, storage, apiKey, activeView, userName, rememberMe,
                 chatHistory, inputMessage, loading, pending, submits, reloads,
                 lastSettled, lastSaved>>
  /\ UNCHANGED <<gwVars, slideVars, viewVars>>

\* ChatInterface: the welcome effect
WelcomeMessage(name, time) ==
  [id |-> <<"welcome">>, sender |-> "bhaii", text |-> WelcomeText(name),
   timestamp |-> ValidDate(time)]

\* the welcome effect without its test of chatHistory.length
WelcomeEffectAlways(history, name, time) ==
  Append(history, WelcomeMessage(name, time))

WelcomeEffect(history, name, time) ==
  IF Len(history) = 0 THEN << WelcomeMessage(name, time) >> ELSE history

\* a call of an instance that is unmounted: its setLoading no longer shows
Orphaned(calls) == { [c EXCEPT !.live = FALSE] : c \in calls }

\* App.handleNavigate and renderContent: leaving the chat unmounts the
\* ChatInterface, entering it mounts a new one (useState defaults, then the
\* welcome effect and the save effect)
Navigate(view) ==
  /\ phase = "running"
  /\ view # activeView
  /\ activeView' = view
  /\ inputMessage' = <<>>
  /\ loading' = FALSE
  /\ pending' = IF activeView = "chat" THEN Orphaned(pending) ELSE pending
  /\ IF view = "chat"
       THEN /\ chatHistory' = WelcomeEffect(chatHistory, userName, now)
            /\ storage' = SaveEffect(userName, rememberMe, chatHistory')
            /\ lastSaved' = SavedFrom(userName, rememberMe, chatHistory')
       ELSE UNCHANGED <<chatHistory, storage, lastSaved>>
  /\ show' = ShowDefault
  /\ scheduled' = IF activeView = "slideshow-generator"
                    THEN UnmountSlideshow([show |-> show, timers |-> scheduled])
                    ELSE scheduled
  /\ firings' = 0
  /\ stopped' = IF activeView = "slideshow-generator" /\ show.isPlaying
                  THEN "unmount" ELSE stopped
  /\ editor' = EditorDefault
  /\ edPending' = IF activeView = "image-editor" THEN Orphaned(edPending) ELSE edPending
  /\ hd' = [HDDefault EXCEPT !.checking = (view = "hd-image-generator")]
  /\ hdPending' = IF activeView = "hd-image-generator" THEN Orphaned(hdPending)
                   ELSE hdPending
  /\ editedFor' = <<>>
  /\ UNCHANGED keyIssue
  /\ UNCHANGED <<phase, apiKey, now, userName, rememberMe, submits, reloads,
                 lastSettled>>
  /\ UNCHANGED gwVars

\* ChatInterface: onChange of the message input (disabled while loading)
TypeInput(text) ==
  /\ phase = "running"
  /\ activeView = "chat"
  /\ ~loading
  /\ inputMessage' = text
  /\ UNCHANGED <<phase, storage, apiKey, now, activeView, userName, rememberMe,
                 chatHistory, loading, pending, submits, reloads, lastSettled,
                 lastSaved>>
  /\ UNCHANGED <<gwVars, slideVars, viewVars>>

\* ChatInterface: onChange of the name input, then the save effect
SetUserName(name) ==
  /\ phase = "running"
  /\ activeView = "chat"
  /\ name # userName
  /\ userName' = name
  /\ storage' = SaveEffect(name, rememberMe, chatHistory)
  /\ lastSaved' = SavedFrom(name, rememberMe, chatHistory)
  /\ UNCHANGED <<phase, apiKey, now, activeView, rememberMe, chatHistory,
                 inputMessage, loading, pending, submits, reloads, lastSettled>>
  /\ UNCHANGED <<gwVars, slideVars, viewVars>>

\* ChatInterface: onChange of the rememberMe checkbox, then the save effect
SetRememberMe ==
  /\ phase = "running"
  /\ activeView = "chat"
  /\ rememberMe' = ~rememberMe
  /\ storage' = SaveEffect(userName, rememberMe', chatHistory)
  /\ lastSaved' = SavedFrom(userName, rememberMe', chatHistory)
  /\ UNCHANGED <<phase, apiKey, now, activeView, userName, chatHistory,
                 inputMessage, loading, pending, submits, reloads, lastSettled>>
  /\ UNCHANGED <<gwVars, slideVars, viewVars>>

\* handleSendMessage: newUserMessage
UserMessage(input, time) ==
  [id |-> NumberToString(time), sender |-> "user", text |-> Trim(input),
   timestamp |-> ValidDate(time)]

\* response.text ?? response.error: an empty text is kept
ReplyTextNullish(result) ==
  IF result.threw THEN FallbackLine
  ELSE IF result.hasError /\ result.text = <<>> THEN result.error ELSE result.text

\* handleSendMessage: response.text || response.error || 'Oops, ...', and the
\* fixed line of its catch block
ReplyText(result) ==
  IF result.threw THEN FallbackLine
  ELSE OrElse(result.text,
              OrElse(IF result.hasError THEN result.error ELSE <<>>, OopsLine))

\* handleSendMessage: bhaiiResponse / errorMessage
ReplyMessage(result, time) ==
  [id |-> NumberToString(time + 1), sender |-> "bhaii", text |-> ReplyText(result),
   timestamp |-> ValidDate(time)]

\* the reply appended to the history the call was made with, not to prev
AppendReplyStale(prev, call, reply) == Append(call.history, reply)

\* the reply put in front of the transcript
AppendReplyFirst(prev, call, reply) == <<reply>> \o prev

\* setChatHistory((prev) => [...prev, reply])
AppendReply(prev, call, reply) == Append(prev, reply)

\* what is remembered of a call that settled
SettledRecord(call, remote, result, reply, history) ==
  << [base |-> call.base, result |-> result, text |-> reply.text,
      len |-> Len(history)] >>

\* the guard of handleSendMessage
SubmitAccepted == Trim(inputMessage) # <<>> /\ ~loading

\* ChatInterface.handleSendMessage up to its await. Without an API key
\* chatWithBhaii throws and catches before it awaits anything, and the rest
\* of the handler runs before any other event.
Submit ==
  /\ phase = "running"
  /\ activeView = "chat"
  /\ SubmitAccepted
  /\ submits < MaxSubmits
  /\ submits' = submits + 1
  /\ LET newUserMessage == UserMessage(inputMessage, now)
         updatedHistory == Append(chatHistory, newUserMessage)
         call == [message |-> Trim(inputMessage), history |-> updatedHistory,
                  userName |-> userName, base |-> Len(chatHistory), live |-> TRUE]
         env == [apiKey |-> apiKey, remote |-> Throw(<<>>), dialog |-> "ok"]
         result == chatWithBhaii(call.message, call.history, call.userName, env)
         reply == ReplyMessage(result, now)
     IN IF apiKey
          THEN /\ chatHistory' = updatedHistory
               /\ loading' = TRUE
               /\ pending' = pending \cup {call}
               /\ UNCHANGED lastSettled
          ELSE /\ chatHistory' = AppendReply(updatedHistory, call, reply)
               /\ loading' = FALSE
               /\ UNCHANGED pending
               /\ lastSettled' = SettledRecord(call, env.remote, result, reply, chatHistory')
  /\ inputMessage' = <<>>
  /\ storage' = SaveEffect(userName, rememberMe, chatHistory')
  /\ lastSaved' = SavedFrom(userName, rememberMe, chatHistory')
  /\ UNCHANGED <<phase, apiKey, now, activeView, userName, rememberMe, reloads>>
  /\ UNCHANGED <<gwVars, slideVars, viewVars>>

\* handleSendMessage after its await: the call settles, the reply is appended
\* to the App's chatHistory, and setLoading(false) reaches the instance that
\* made the call if it is still mounted; the save effect runs if a
\* ChatInterface is mounted
Settle(call, remote, dialog) ==
  /\ phase = "running"
  /\ call \in pending
  /\ LET env == [apiKey |-> apiKey, remote |-> remote, dialog |-> dialog]
         result == chatWithBhaii(call.message, call.history, call.userName, env)
         reply == ReplyMessage(result, now)
     IN /\ chatHistory' = AppendReply(chatHistory, call, reply)
        /\ lastSettled' = SettledRecord(call, remote, result, reply, chatHistory')
  /\ pending' = pending \ {call}
  /\ loading' = IF call.live THEN FALSE ELSE loading
  /\ IF activeView = "chat"
       THEN /\ storage' = SaveEffect(userName, rememberMe, chatHistory')
            /\ lastSaved' = SavedFrom(userName, rememberMe, chatHistory')
       ELSE UNCHANGED <<storage, lastSaved>>
  /\ UNCHANGED <<phase, apiKey, now, activeView, userName, rememberMe,
                 inputMessage, submits, reloads>>
  /\ UNCHANGED <<gwVars, slideVars, viewVars>>

\* the page is reloaded: the App starts again over the same storage
Reload ==
  /\ phase = "running"
  /\ reloads < MaxReloads
  /\ reloads' = reloads + 1
  /\ phase' = "boot"
  /\ activeView' = "home"
  /\ userName' = DefaultState.userName
  /\ rememberMe' = DefaultState.rememberMe
  /\ chatHistory' = DefaultState.chatHistory
  /\ inputMessage' = <<>>
  /\ loading' = FALSE
  /\ pending' = {}
  /\ show' = ShowDefault
  /\ scheduled' = {}
  /\ firings' = 0
  /\ stopped' = "none"
  /\ editor' = EditorDefault
  /\ edPending' = {}
  /\ hd' = HDDefault
  /\ hdPending' = {}
  /\ editedFor' = <<>>
  /\ keyIssue' = FALSE
  /\ UNCHANGED <<storage, apiKey, now, submits, lastSettled, lastSaved>>
  /\ UNCHANGED gwVars

Next ==
  \/ AppMount
  \/ \E view \in Views : Navigate(view)
  \/ \E text \in InputTexts : TypeInput(text)
  \/ \E name \in Names : SetUserName(name)
  \/ SetRememberMe
  \/ Submit
  \/ \E call \in pending, env \in SettleEnvs :
       Settle(call, env.remote, env.dialog)

\* the chat app, every event within one millisecond
Spec == Init /\ [][Next]_vars

\* the chat app while time passes
NextTimed == Next \/ Tick

SpecTimed == Init /\ [][NextTimed]_vars

\* the same program with page reloads
NextReload == Next \/ Reload

SpecReload == Init /\ [][NextReload]_vars

\* ------------------------------------------------- the gateway on its own
\* The three operations applied to arguments and an environment drawn at the
\* start; each is also applied to the twin environment, which differs only in
\* the message of the error the remote service raises.
PngPart == [mimeType |-> "image/png", data |-> <<"iVBORw0KGgo=">>]
EmptyPart == [mimeType |-> "image/jpeg", data |-> <<>>]

GatewayRemotes ==
  { Answer(<<>>, <<>>),
    Answer(<< <<"Shabaash", "!">>, <<" ">> >>, << PngPart >>),
    Answer(<< <<" ">> >>, << EmptyPart >>) }
  \cup { Throw(m) : m \in ErrorMessages }

GatewayEnvs ==
  { e \in [apiKey : BOOLEAN, remote : GatewayRemotes, dialog : Dialogs,
           readFails : BOOLEAN] :
      e.remote.kind = "throw" \/ e.dialog = "ok" }

Prompts == { <<>>, <<" ">>, <<" ", "\n">>, <<" ", "a cat", " ">> }

TwinMessages == { <<"quota exceeded">>, <<"network down">>, <<>> }

GatewayInputs ==
  [message : { <<"hi">> },
   history : { << [id |-> <<"998">>, sender |-> "user", text |-> <<"hi">>,
                   timestamp |-> ValidDate(998)] >> },
   userName : { <<"Ann">> },
   imageFile : { [name |-> "cat.png", type |-> <<"image/", "png">>] },
   prompt : Prompts,
   aspectRatio : AspectRatios,
   env : GatewayEnvs,
   twinMessage : TwinMessages]

\* the environment with the error's message replaced
Twin(env, message) ==
  IF env.remote.kind = "throw" THEN [env EXCEPT !.remote = Throw(message)] ELSE env

InitGateway ==
  /\ ViewsInit
  /\ phase = "boot"
  /\ storage = Absent
  /\ apiKey = FALSE
  /\ now = ClockStart
  /\ activeView = "home"
  /\ userName = DefaultState.userName
  /\ rememberMe = DefaultState.rememberMe
  /\ chatHistory = DefaultState.chatHistory
  /\ inputMessage = <<>>
  /\ loading = FALSE
  /\ pending = {}
  /\ submits = 0
  /\ reloads = 0
  /\ lastSettled = <<>>
  /\ lastSaved = <<>>
  /\ gwIn \in GatewayInputs
  /\ gwChat = <<>>
  /\ gwEdit = <<>>
  /\ gwHD = <<>>

CallChat ==
  /\ gwChat = <<>>
  /\ gwChat' =
       << [result |-> chatWithBhaii(gwIn.message, gwIn.history, gwIn.userName, gwIn.env),
           twin |-> chatWithBhaii(gwIn.message, gwIn.history, gwIn.userName,
                                  Twin(gwIn.env, gwIn.twinMessage))] >>
  /\ UNCHANGED <<chatVars, gwIn, gwEdit, gwHD, slideVars, viewVars>>

CallEdit ==
  /\ gwEdit = <<>>
  /\ gwEdit' =
       << [result |-> editImageWithGemini(gwIn.imageFile, gwIn.prompt, gwIn.env),
           twin |-> editImageWithGemini(gwIn.imageFile, gwIn.prompt,
                                        Twin(gwIn.env, gwIn.twinMessage))] >>
  /\ UNCHANGED <<chatVars, gwIn, gwChat, gwHD, slideVars, viewVars>>

CallHD ==
  /\ gwHD = <<>>
  /\ gwHD' =
       << [result |-> generateHDImageWithGemini(gwIn.prompt, gwIn.aspectRatio, gwIn.env),
           twin |-> generateHDImageWithGemini(gwIn.prompt, gwIn.aspectRatio,
                                              Twin(gwIn.env, gwIn.twinMessage))] >>
  /\ UNCHANGED <<chatVars, gwIn, gwChat, gwEdit, slideVars, viewVars>>

NextGateway == CallChat \/ CallEdit \/ CallHD

SpecGateway == InitGateway /\ [][NextGateway]_vars

\* ------------------------------------------------ the slideshow on its own
\* Lines in a text of SpecLines.
MaxLines == 8

\* the slideshow with its pending timers
ShowState == [show |-> show, timers |-> scheduled]

\* the lines 1..n with a number each, joined by '\n'
RECURSIVE NumberedLines(_)
NumberedLines(n) ==
  IF n = 1 THEN NumberToString(1)
  ELSE NumberedLines(n - 1) \o <<"\n">> \o NumberToString(n)

\* what the user types into the slideshow's textarea
SlideTexts ==
  { <<" ", "\n", " ">>,
    <<" ", "1", " ", "\n", "\n", " ", "\n", "2", "\n">> }
  \cup { NumberedLines(n) : n \in 1..(MAX_SLIDES + 1) }

\* SlideshowGenerator: onChange of the textarea (disabled while playing)
SetInputText(text) ==
  /\ phase = "running"
  /\ activeView = "slideshow-generator"
  /\ ~show.isPlaying /\ ~show.loading
  /\ text # show.inputText
  /\ show' = [show EXCEPT !.inputText = text]
  /\ UNCHANGED <<scheduled, firings, stopped>>
  /\ UNCHANGED <<chatVars, gwVars, viewVars>>

\* SlideshowGenerator.handleGenerate, by the Generate button (disabled while
\* playing and while the text is blank)
Generate ==
  /\ phase = "running"
  /\ activeView = "slideshow-generator"
  /\ ~show.isPlaying /\ ~show.loading
  /\ Trim(show.inputText) # <<>>
  /\ LET after == handleGenerate(ShowState)
     IN show' = after.show /\ scheduled' = after.timers
  /\ firings' = 0
  /\ stopped' = "none"
  /\ UNCHANGED <<chatVars, gwVars, viewVars>>

\* SlideshowGenerator.handleClear, by the Clear button
Clear ==
  /\ phase = "running"
  /\ activeView = "slideshow-generator"
  /\ ~show.loading
  /\ ~(show.inputText = <<>> /\ Len(show.slides) = 0 /\ ~show.isPlaying)
  /\ LET after == handleClear(ShowState)
     IN show' = after.show /\ scheduled' = after.timers
  /\ stopped' = IF show.isPlaying THEN "clear" ELSE stopped
  /\ UNCHANGED firings
  /\ UNCHANGED <<chatVars, gwVars, viewVars>>

\* a pending timer fires after SLIDE_DURATION_MS: its callback runs if the
\* SlideshowGenerator that made it is still mounted
TimerFires(timer) ==
  /\ timer \in scheduled
  /\ IF activeView = "slideshow-generator"
       THEN LET after == TimerCallback(ShowState, timer)
            IN show' = after.show /\ scheduled' = after.timers
       ELSE show' = show /\ scheduled' = scheduled \ {timer}
  /\ firings' = firings + 1
  /\ stopped' = IF show.isPlaying /\ ~show'.isPlaying THEN "finish" ELSE stopped
  /\ UNCHANGED <<chatVars, gwVars, viewVars>>

InitSlides ==
  /\ Init
  /\ storage = Absent
  /\ apiKey

NextSlides ==
  \/ AppMount
  \/ \E view \in Views : Navigate(view)
  \/ \E text \in SlideTexts : SetInputText(text)
  \/ Generate
  \/ Clear
  \/ \E timer \in scheduled : TimerFires(timer)

SpecSlides == InitSlides /\ [][NextSlides]_vars

\* a pending timer fires in the end
SpecSlidesFair ==
  SpecSlides /\ WF_vars(\E timer \in scheduled : TimerFires(timer))

\* the texts of SpecLines: up to MaxLines lines; line j is empty, blank, or
\* its number between blanks
LineShapes(j) == { <<>>, <<" ">>, <<" ">> \o NumberToString(j) \o <<" ">> }

RECURSIVE TextsOfLines(_)
TextsOfLines(n) ==
  IF n = 1 THEN LineShapes(1)
  ELSE { t \o <<"\n">> \o l : t \in TextsOfLines(n - 1), l \in LineShapes(n) }

LineTexts == UNION { TextsOfLines(n) : n \in 1..MaxLines }

\* the SlideshowGenerator with a text typed into it
InitLines ==
  /\ editor = EditorDefault /\ edPending = {}
  /\ hd = HDDefault /\ hdPending = {}
  /\ editedFor = <<>> /\ keyIssue = FALSE
  /\ \E text \in LineTexts : show = [ShowDefault EXCEPT !.inputText = text]
  /\ scheduled = {}
  /\ firings = 0
  /\ stopped = "none"
  /\ phase = "running"
  /\ storage = Absent
  /\ apiKey = TRUE
  /\ now = ClockStart
  /\ activeView = "slideshow-generator"
  /\ userName = DefaultState.userName
  /\ rememberMe = DefaultState.rememberMe
  /\ chatHistory = DefaultState.chatHistory
  /\ inputMessage = <<>>
  /\ loading = FALSE
  /\ pending = {}
  /\ submits = 0
  /\ reloads = 0
  /\ lastSettled = <<>>
  /\ lastSaved = <<>>
  /\ gwIn = <<>>
  /\ gwChat = <<>>
  /\ gwEdit = <<>>
  /\ gwHD = <<>>

\* handleGenerate applied to the text, whatever the Generate button allows
ApplyGenerate ==
  /\ ~show.isPlaying
  /\ show.error = <<>>
  /\ LET after == handleGenerate(ShowState)
     IN show' = after.show /\ scheduled' = after.timers
  /\ firings' = 0
  /\ stopped' = "none"
  /\ UNCHANGED <<chatVars, gwVars, viewVars>>

NextLines == ApplyGenerate

SpecLines == InitLines /\ [][NextLines]_vars

\* ------------------------------------------------ the views and the gateway
\* what the user picks in the file dialog: nothing, an image, another image,
\* a text file
PngFile == [name |-> "cat.png", type |-> <<"image/", "png">>]
JpgFile == [name |-> "dog.jpg", type |-> <<"image/", "jpeg">>]
TextFile == [name |-> "notes.txt", type |-> <<"text/plain">>]
FileChoices == { <<>>, <<PngFile>>, <<JpgFile>>, <<TextFile>> }

\* what the user types as a prompt of the image views
ViewPrompts == { <<" ">>, <<" ", "a cat", " ">> }

\* the environments a call of the image views settles in
ViewRemotes ==
  { Answer(<<>>, << PngPart >>),
    Answer(<<>>, <<>>),
    Throw(<<"Requested entity was not found", ".">>),
    Throw(<<"quota exceeded">>) }

ViewEnvs ==
  { e \in [remote : ViewRemotes, dialog : {"ok", "rejects"}, readFails : {FALSE}] :
      e.remote = Throw(<<"Requested entity was not found", ".">>) \/ e.dialog = "ok" }

\* the file the edited image on display was made from, after a step that
\* did not put a new one there
ShownFor(after, for) == IF after.editedImageUrl = <<>> THEN <<>> ELSE for

\* handleGenerateImage after its await takes the branch of
\* response.error.includes("API key issue")
ReportsKeyIssue(result) ==
  /\ ~result.threw
  /\ result.imageUrl = <<>>
  /\ result.hasError /\ result.error # <<>>
  /\ Includes(result.error, ApiKeyMarker)

\* ImageEditor: onChange of the file input
FileChange(files) ==
  /\ phase = "running"
  /\ activeView = "image-editor"
  /\ editor' = handleFileChange(editor, files)
  /\ editedFor' = ShownFor(editor', editedFor)
  /\ UNCHANGED <<edPending, hd, hdPending, keyIssue>>
  /\ UNCHANGED <<chatVars, gwVars, slideVars>>

\* ImageEditor: onChange of the prompt (disabled while loading or without a
\* file)
SetImagePrompt(text) ==
  /\ phase = "running"
  /\ activeView = "image-editor"
  /\ ~editor.loading /\ editor.selectedFile # <<>>
  /\ text # editor.imagePrompt
  /\ editor' = [editor EXCEPT !.imagePrompt = text]
  /\ editedFor' = ShownFor(editor', editedFor)
  /\ UNCHANGED <<edPending, hd, hdPending, keyIssue>>
  /\ UNCHANGED <<chatVars, gwVars, slideVars>>

\* the Edit Image button is disabled
EditDisabled(ed) == ed.loading \/ ed.selectedFile = <<>> \/ Trim(ed.imagePrompt) = <<>>

\* ImageEditor.handleEditImage up to its await, by the Edit Image button
EditImage ==
  /\ phase = "running"
  /\ activeView = "image-editor"
  /\ ~EditDisabled(editor)
  /\ LET after == handleEditImage(editor)
     IN editor' = after.view /\ edPending' = edPending \cup after.calls
  /\ editedFor' = ShownFor(editor', editedFor)
  /\ UNCHANGED <<hd, hdPending, keyIssue>>
  /\ UNCHANGED <<chatVars, gwVars, slideVars>>

\* handleEditImage after its await: the call settles, and the instance that
\* made it takes the result if it is still mounted
EditSettle(call, env) ==
  /\ phase = "running"
  /\ call \in edPending
  /\ LET result == editImageWithGemini(call.imageFile[1], call.prompt,
                     [apiKey |-> apiKey, remote |-> env.remote, dialog |-> env.dialog,
                      readFails |-> env.readFails])
     IN /\ editor' = IF call.live THEN EditSettled(editor, result) ELSE editor
        /\ editedFor' = IF call.live /\ ~result.threw /\ result.imageUrl # <<>>
                           THEN call.imageFile ELSE editedFor
  /\ edPending' = edPending \ {call}
  /\ UNCHANGED <<hd, hdPending, keyIssue>>
  /\ UNCHANGED <<chatVars, gwVars, slideVars>>

\* ImageEditor.handleClear, by the Clear button (disabled while loading or
\* without a file)
ClearEditor ==
  /\ phase = "running"
  /\ activeView = "image-editor"
  /\ ~editor.loading /\ editor.selectedFile # <<>>
  /\ editor' = handleClearEditor(editor)
  /\ editedFor' = ShownFor(editor', editedFor)
  /\ UNCHANGED <<edPending, hd, hdPending, keyIssue>>
  /\ UNCHANGED <<chatVars, gwVars, slideVars>>

\* HDImageGenerator: the mount effect's hasSelectedApiKey() answers, or
\* window.aistudio is missing and checkApiKey stops there
CheckApiKey(answer) ==
  /\ phase = "running"
  /\ activeView = "hd-image-generator"
  /\ hd.checking
  /\ hd' = IF answer = "missing" THEN [hd EXCEPT !.checking = FALSE]
           ELSE checkApiKey(hd, answer = "selected")
  /\ UNCHANGED <<editor, edPending, hdPending, editedFor, keyIssue>>
  /\ UNCHANGED <<chatVars, gwVars, slideVars>>

\* HDImageGenerator.handleSelectApiKey, by the Select API Key button (shown
\* while no key is selected)
SelectApiKey(dialog) ==
  /\ phase = "running"
  /\ activeView = "hd-image-generator"
  /\ ~hd.apiKeySelected
  /\ hd' = IF dialog = "ok"
             THEN [hd EXCEPT !.apiKeySelected = TRUE,
                             !.statusMessage = "API key selected. You can now generate HD images."]
             ELSE [hd EXCEPT !.statusMessage = "Opening API key selection dialog..."]
  /\ keyIssue' = IF dialog = "ok" THEN FALSE ELSE keyIssue
  /\ UNCHANGED <<editor, edPending, hdPending, editedFor>>
  /\ UNCHANGED <<chatVars, gwVars, slideVars>>

\* HDImageGenerator: onChange of the prompt (disabled while loading or
\* without a key)
SetPrompt(text) ==
  /\ phase = "running"
  /\ activeView = "hd-image-generator"
  /\ ~hd.loading /\ hd.apiKeySelected
  /\ text # hd.prompt
  /\ hd' = [hd EXCEPT !.prompt = text]
  /\ UNCHANGED <<editor, edPending, hdPending, editedFor, keyIssue>>
  /\ UNCHANGED <<chatVars, gwVars, slideVars>>

\* HDImageGenerator: onChange of the aspect ratio
SetAspectRatio(ratio) ==
  /\ phase = "running"
  /\ activeView = "hd-image-generator"
  /\ ~hd.loading /\ hd.apiKeySelected
  /\ ratio # hd.aspectRatio
  /\ hd' = [hd EXCEPT !.aspectRatio = ratio]
  /\ UNCHANGED <<editor, edPending, hdPending, editedFor, keyIssue>>
  /\ UNCHANGED <<chatVars, gwVars, slideVars>>

\* the Generate Image button is disabled
HDDisabled(view) == view.loading \/ ~view.apiKeySelected \/ Trim(view.prompt) = <<>>

\* HDImageGenerator.handleGenerateImage up to its await, by the Generate
\* Image button
GenerateImage ==
  /\ phase = "running"
  /\ activeView = "hd-image-generator"
  /\ ~HDDisabled(hd)
  /\ LET after == handleGenerateImage(hd)
     IN hd' = after.view /\ hdPending' = hdPending \cup after.calls
  /\ UNCHANGED <<editor, edPending, editedFor, keyIssue>>
  /\ UNCHANGED <<chatVars, gwVars, slideVars>>

\* handleGenerateImage after its await
HDSettle(call, env) ==
  /\ phase = "running"
  /\ call \in hdPending
  /\ LET result == generateHDImageWithGemini(call.prompt, call.aspectRatio,
                     [apiKey |-> apiKey, remote |-> env.remote, dialog |-> env.dialog,
                      readFails |-> env.readFails])
     IN /\ hd' = IF call.live THEN HDSettled(hd, result) ELSE hd
        /\ keyIssue' = IF call.live /\ ReportsKeyIssue(result) THEN TRUE ELSE keyIssue
  /\ hdPending' = hdPending \ {call}
  /\ UNCHANGED <<editor, edPending, editedFor>>
  /\ UNCHANGED <<chatVars, gwVars, slideVars>>

\* HDImageGenerator.handleClear, by the Clear button (disabled while loading)
ClearHD ==
  /\ phase = "running"
  /\ activeView = "hd-image-generator"
  /\ ~hd.loading
  /\ hd' = handleClearHD(hd)
  /\ UNCHANGED <<editor, edPending, hdPending, editedFor, keyIssue>>
  /\ UNCHANGED <<chatVars, gwVars, slideVars>>

InitViews ==
  /\ Init
  /\ storage = Absent
  /\ apiKey

NextViews ==
  \/ AppMount
  \/ \E view \in Views : Navigate(view)
  \/ \E text \in InputTexts : TypeInput(text)
  \/ (submits < MaxViewSubmits /\ Submit)
  \/ \E call \in pending, env \in SettleEnvs : Settle(call, env.remote, env.dialog)
  \/ \E files \in FileChoices : FileChange(files)
  \/ \E text \in ViewPrompts : SetImagePrompt(text)
  \/ EditImage
  \/ \E call \in edPending, env \in ViewEnvs : EditSettle(call, env)
  \/ ClearEditor
  \/ \E answer \in {"selected", "none", "missing"} : CheckApiKey(answer)
  \/ \E dialog \in Dialogs : SelectApiKey(dialog)
  \/ \E text \in ViewPrompts : SetPrompt(text)
  \/ \E ratio \in {"1:1", "16:9"} : SetAspectRatio(ratio)
  \/ GenerateImage
  \/ \E call \in hdPending, env \in ViewEnvs : HDSettle(call, env)
  \/ ClearHD

\* the chat and the two image views
SpecViews == InitViews /\ [][NextViews]_vars

\* ------------------------------------------------------------------ claims
IsPrefix(a, b) == Len(a) <= Len(b) /\ SubSeq(b, 1, Len(a)) = a

\* C1: when the chatWithBhaii call of an accepted submission has settled, the
\* transcript is exactly 2 entries longer than just before that submission.
C1_TwoLongerWhenSettled ==
  lastSettled # <<>> => lastSettled[1].len = lastSettled[1].base + 2

\* C2: once the App load effect has run, every step keeps the transcript it
\* found as a prefix of the transcript it leaves.
C2_AppendOnly ==
  [][phase = "running" => IsPrefix(chatHistory, chatHistory')]_vars

\* C2 witness: a reply was appended after the view was switched away from the
\* chat, while another submission is still pending.
C2_ReplyAfterSwitch ==
  /\ lastSettled # <<>>
  /\ lastSettled[1].len = Len(chatHistory)
  /\ lastSettled[1].len > lastSettled[1].base + 2
  /\ activeView # "chat"
  /\ pending # {}

\* C3: the chat has at most one chatWithBhaii call outstanding.
C3_OneOutstanding == Cardinality(pending) <= 1

\* C4 as claimed: the assistant turn holds the returned text when the call
\* returned no error (an empty text included), the error string when it
\* returned one, and the fallback line when it threw.
C4_ReplyIsReturnedText ==
  lastSettled # <<>> =>
    LET s == lastSettled[1]
    IN chatHistory[s.len].text =
         (IF s.result.threw THEN FallbackLine
          ELSE IF s.result.hasError THEN s.result.error
          ELSE s.result.text)

\* C4 as amended: the assistant turn holds the returned text when the call
\* returned a non-empty text, the error string when it returned an error, the
\* line 'Oops, kuch error ho gaya.' when it returned an empty text and no
\* error, and the fallback line when it threw.
C4_ReplyOrOops ==
  lastSettled # <<>> =>
    LET s == lastSettled[1]
    IN /\ chatHistory[s.len].sender = "bhaii"
       /\ chatHistory[s.len].text =
            (IF s.result.threw THEN FallbackLine
             ELSE IF s.result.hasError THEN s.result.error
             ELSE IF s.result.text # <<>> THEN s.result.text
             ELSE OopsLine)

\* C4 witness: a call returned an empty text and no error, and the Oops line
\* is the assistant turn.
C4_EmptyTextSettled ==
  /\ lastSettled # <<>>
  /\ ~lastSettled[1].result.threw
  /\ ~lastSettled[1].result.hasError
  /\ lastSettled[1].result.text = <<>>
  /\ chatHistory[lastSettled[1].len].text = OopsLine

\* C10: a step that takes rememberMe from true to false leaves no stored
\* item, and no step that keeps rememberMe false stores one again.
C10_RemovedWhileForgotten ==
  [][/\ (rememberMe /\ ~rememberMe') => storage' = Absent
     /\ (~rememberMe /\ ~rememberMe' /\ storage = Absent) => storage' = Absent]_vars

\* C10 witness: rememberMe was loaded true with a stored transcript, is now
\* false, a submission has been made since, and nothing is stored.
C10_Forgotten ==
  /\ ~rememberMe
  /\ storage = Absent
  /\ Len(chatHistory) >= 3
  /\ chatHistory[1].timestamp = ValidDate(412)

\* the calls of SpecGateway that were made
GatewayDone == gwChat \o gwEdit \o gwHD

\* the remote service was called and raised an error
RemoteFailed(done) == done.result.remoteCalls = 1 /\ gwIn.env.remote.kind = "throw"

\* the entity-not-found condition of the remote service
EntityNotFound(message) == Includes(message, NotFoundNeedle)

HasMarker(result) ==
  ~result.threw /\ result.hasError /\ Includes(result.error, ApiKeyMarker)

\* C5: no gateway operation raises to its caller, and after a remote failure
\* it returns a result with an error string.
C5_NeverRaises ==
  \A i \in 1..Len(GatewayDone) :
    LET done == GatewayDone[i]
    IN /\ ~done.result.threw
       /\ RemoteFailed(done) => done.result.hasError /\ done.result.error # <<>>

\* C6 (with the reselection dialog available): after an entity-not-found
\* failure an operation has opened the dialog once and returns an error with
\* the marker 'API key issue'; after any other failure its result is without
\* the marker; and the three operations, applied to one failure, agree on
\* whether it is this condition.
C6_SameNotFoundHandling ==
  gwIn.env.dialog = "ok" =>
    /\ \A i \in 1..Len(GatewayDone) :
         LET done == GatewayDone[i]
         IN RemoteFailed(done) =>
              IF EntityNotFound(gwIn.env.remote.message)
                THEN done.result.dialogCalls = 1 /\ HasMarker(done.result)
                ELSE ~HasMarker(done.result)
    /\ \A i, j \in 1..Len(GatewayDone) :
         (RemoteFailed(GatewayDone[i]) /\ RemoteFailed(GatewayDone[j])) =>
           (HasMarker(GatewayDone[i].result) <=> HasMarker(GatewayDone[j].result))

\* C7: two remote failures that are not entity-not-found and differ only in
\* the error's message give the same result, in each operation.
C7_MessageIndependent ==
  \A i \in 1..Len(GatewayDone) :
    LET done == GatewayDone[i]
    IN (/\ RemoteFailed(done)
        /\ ~EntityNotFound(gwIn.env.remote.message)
        /\ ~EntityNotFound(gwIn.twinMessage))
       => done.result = done.twin

\* C8: generateHDImageWithGemini with an empty or whitespace-only prompt
\* returns an error result and calls the remote service not at all, whatever
\* the aspect ratio and whether or not the API key is set.
C8_BlankPromptNoCall ==
  (gwHD # <<>> /\ Trim(gwIn.prompt) = <<>>) =>
    /\ ~gwHD[1].result.threw
    /\ gwHD[1].result.hasError
    /\ gwHD[1].result.error # <<>>
    /\ gwHD[1].result.imageUrl = <<>>
    /\ gwHD[1].result.remoteCalls = 0

\* C8 witness: a whitespace-only prompt, with the API key set and a remote
\* service that would have answered with an image, got the prompt error.
C8_BlankPromptCalled ==
  /\ gwHD # <<>>
  /\ gwIn.prompt = <<" ", "\n">>
  /\ gwIn.aspectRatio = "9:16"
  /\ gwIn.env.apiKey
  /\ gwIn.env.remote.image = << PngPart >>
  /\ gwHD[1].result.error = HDPromptError

\* C9: the App load effect, run over an item that the save effect wrote,
\* gives the name, rememberMe and transcript the item was written from.
C9_RoundTrip ==
  [][(phase = "boot" /\ phase' = "running" /\ lastSaved # <<>>) =>
       /\ userName' = lastSaved[1].userName
       /\ rememberMe' = lastSaved[1].rememberMe
       /\ chatHistory' = lastSaved[1].chatHistory]_vars

\* C11: every step that changes the name, rememberMe or the transcript and
\* leaves rememberMe true leaves the stored item equal to the record
\* {name, rememberMe: true, lastChat: transcript} of the state it leaves.
C11_WrittenThrough ==
  [][(/\ phase = "running"
      /\ rememberMe'
      /\ <<userName, rememberMe, chatHistory>>' # <<userName, rememberMe, chatHistory>>)
       => storage' = StringifyPrefs(userName', chatHistory')]_vars

\* the stored value the App load effect cannot load: no JSON, or a record
\* whose lastChat is missing or no array
Unloadable(stored) ==
  \/ stored.kind = "invalid"
  \/ /\ stored.kind = "json"
     /\ stored.value.t = "object"
     /\ stored.value.lastChat.t # "array"

\* C12: the App load effect over a stored value that cannot be loaded leaves
\* the name, rememberMe and the transcript at their defaults and removes the
\* stored value.
C12_DiscardedWhole ==
  [][(phase = "boot" /\ phase' = "running" /\ Unloadable(storage)) =>
       /\ userName' = DefaultState.userName
       /\ rememberMe' = DefaultState.rememberMe
       /\ chatHistory' = DefaultState.chatHistory
       /\ storage' = Absent]_vars

\* the places of the synthesized greeting in a transcript
Greetings(history) == { i \in 1..Len(history) : history[i].id = <<"welcome">> }

\* C13: a transcript holds at most one greeting, and only as its first entry;
\* a step turns an empty transcript into a non-empty one only by mounting the
\* chat view, and the transcript is then the one greeting, with the name in
\* its text when the name is non-empty and the default text otherwise; a step
\* from a non-empty transcript adds no greeting and replaces nothing.
C13_OneGreeting ==
  /\ [](Cardinality(Greetings(chatHistory)) <= 1 /\ Greetings(chatHistory) \subseteq {1})
  /\ [][phase = "running" =>
          IF chatHistory = <<>>
            THEN chatHistory' # <<>> =>
                   /\ activeView # "chat" /\ activeView' = "chat"
                   /\ Len(chatHistory') = 1
                   /\ chatHistory'[1].id = <<"welcome">>
                   /\ chatHistory'[1].sender = "bhaii"
                   /\ chatHistory'[1].text =
                        (IF userName = <<>> THEN WELCOME_MESSAGES_0
                         ELSE <<"Namaste ">> \o userName
                                \o <<"! Kya haal hai, mere bhai/behen? Kaise ho tum?">>)
            ELSE /\ IsPrefix(chatHistory, chatHistory')
                 /\ Greetings(chatHistory') = Greetings(chatHistory)]_vars

\* C13 witness: a restored transcript without a greeting, the chat view
\* mounted over it and a turn submitted, and still no greeting in it.
C13_RestoredKept ==
  /\ activeView = "chat"
  /\ Len(chatHistory) >= 2
  /\ chatHistory[1].id = <<"4", "1", "2">>
  /\ Greetings(chatHistory) = {}

\* C17: the ids of the entries of the transcript are pairwise distinct.
C17_DistinctIds ==
  \A i, j \in 1..Len(chatHistory) :
    i # j => chatHistory[i].id # chatHistory[j].id

\* the timestamps of the transcript that are no valid instant
InvalidInstants(history) == { i \in 1..Len(history) : ~history[i].timestamp.valid }

\* the stored item is a record with a transcript in which the timestamp of
\* some message is a text that denotes no instant
StoredInvalidInstant(stored) ==
  /\ stored.kind = "json"
  /\ stored.value.t = "object"
  /\ stored.value.lastChat.t = "array"
  /\ \E i \in 1..Len(stored.value.lastChat.items) :
       LET item == stored.value.lastChat.items[i]
       IN item.t = "object" /\ item.timestamp.t = "string"
          /\ ~IsIsoText(item.timestamp.s)

\* C18: after the App load effect every timestamp of the transcript is a
\* valid instant, and a stored record with a timestamp text that denotes no
\* instant is discarded: the state is left at its defaults and the stored
\* item is removed.
C18_ValidInstants ==
  [][(phase = "boot" /\ phase' = "running") =>
       /\ InvalidInstants(chatHistory') = {}
       /\ StoredInvalidInstant(storage) =>
            /\ userName' = DefaultState.userName
            /\ rememberMe' = DefaultState.rememberMe
            /\ chatHistory' = DefaultState.chatHistory
            /\ storage' = Absent]_vars

\* the calls of a set, without the mark of the instance that made them
Calls(calls) ==
  { [message |-> c.message, history |-> c.history, base |-> c.base] : c \in calls }

\* C19: a call that is outstanding was given the transcript up to and with
\* its user turn, which is in the transcript already; the step that makes the
\* call appends that user turn and nothing else; the step in which a call
\* settles appends one assistant turn, at the end and so after the user turn
\* of the call, which is still in its place, also when the call failed.
C19_TurnBeforeCall ==
  /\ [](\A c \in pending :
          /\ c.base + 1 <= Len(chatHistory)
          /\ c.history = SubSeq(chatHistory, 1, c.base + 1)
          /\ c.history[c.base + 1].sender = "user"
          /\ c.history[c.base + 1].text = c.message)
  /\ [][/\ \A c \in Calls(pending') \ Calls(pending) :
             /\ Len(chatHistory') = Len(chatHistory) + 1
             /\ IsPrefix(chatHistory, chatHistory')
             /\ c.history = chatHistory'
             /\ chatHistory'[Len(chatHistory')].sender = "user"
             /\ chatHistory'[Len(chatHistory')].text = Trim(inputMessage)
        /\ \A c \in Calls(pending) \ Calls(pending') :
             /\ Len(chatHistory') = Len(chatHistory) + 1
             /\ IsPrefix(chatHistory, chatHistory')
             /\ chatHistory'[Len(chatHistory')].sender = "bhaii"
             /\ Len(chatHistory') > c.base + 1
             /\ chatHistory'[c.base + 1] = c.history[c.base + 1]
        /\ (submits' # submits /\ Calls(pending') = Calls(pending)) =>
             /\ Len(chatHistory') = Len(chatHistory) + 2
             /\ IsPrefix(chatHistory, chatHistory')
             /\ chatHistory'[Len(chatHistory) + 1].sender = "user"
             /\ chatHistory'[Len(chatHistory) + 1].text = Trim(inputMessage)
             /\ chatHistory'[Len(chatHistory) + 2].sender = "bhaii"]_vars

\* C19 witness: a call raised; the fallback line is the last entry and the
\* user turn of the call is where the submission put it.
C19_FailedCallKeepsTurn ==
  /\ lastSettled # <<>>
  /\ lastSettled[1].result.threw
  /\ lastSettled[1].len = Len(chatHistory)
  /\ chatHistory[lastSettled[1].len].text = FallbackLine
  /\ chatHistory[lastSettled[1].base + 1].sender = "user"
  /\ chatHistory[lastSettled[1].base + 1].text = <<"hi">>
  /\ activeView = "chat"

\* the places of the line breaks of a text, and its lines by their number
BreaksOf(text) == { i \in 1..Len(text) : text[i] = "\n" }
BreakAt(text, k) ==
  IF k = 0 THEN 0
  ELSE IF k > Cardinality(BreaksOf(text)) THEN Len(text) + 1
  ELSE CHOOSE i \in BreaksOf(text) :
         Cardinality({ m \in BreaksOf(text) : m <= i }) = k
LineAt(text, j) == SubSeq(text, BreakAt(text, j - 1) + 1, BreakAt(text, j) - 1)

\* a line without the blanks before its first and after its last other token
TrimmedLine(line) ==
  LET solid == { i \in 1..Len(line) : line[i] # " " }
  IN IF solid = {} THEN <<>>
     ELSE SubSeq(line, CHOOSE i \in solid : \A m \in solid : i <= m,
                       CHOOSE i \in solid : \A m \in solid : m <= i)

\* the numbers of the lines that are not blank, and the i-th of them
SolidLines(text) ==
  { j \in 1..(Cardinality(BreaksOf(text)) + 1) : TrimmedLine(LineAt(text, j)) # <<>> }
SolidLineAt(text, i) ==
  CHOOSE j \in SolidLines(text) :
    Cardinality({ m \in SolidLines(text) : m <= j }) = i

\* C14: after handleGenerate over a text with k lines that are not blank the
\* slides are the first min(MAX_SLIDES, k) of those lines, in their order and
\* trimmed, shown from slide 0; with k = 0 there are no slides, nothing plays
\* and no timer is pending.
C14_FirstSolidLines ==
  (show.isPlaying \/ show.error # <<>>) =>
    LET k == Cardinality(SolidLines(show.inputText))
        kept == IF k < 6 THEN k ELSE 6
    IN IF k = 0
         THEN ~show.isPlaying /\ show.slides = <<>> /\ scheduled = {}
         ELSE /\ show.isPlaying
              /\ show.currentSlideIndex = 0
              /\ Len(show.slides) = kept
              /\ \A i \in 1..kept :
                   show.slides[i] =
                     TrimmedLine(LineAt(show.inputText, SolidLineAt(show.inputText, i)))

\* C14 witness: eight lines, one of the first six blank; six slides play, the
\* sixth is line 7, and line 8 is cut.
C14_CutAfterBlankDropped ==
  /\ show.isPlaying
  /\ Len(show.slides) = 6
  /\ show.slides[6] = <<"7">>
  /\ SolidLines(show.inputText) = (1..8) \ {3}

\* C15: while the slideshow plays the index shown is the number of timers
\* fired since it started and is below the number of slides, which is 1..6;
\* a timer that fires before the last slide shows the next one, and the one
\* that fires on the last slide, the N-th, leaves the slideshow idle at index
\* 0; a slideshow that plays is idle in the end.
C15_PlaysThrough ==
  /\ [](show.isPlaying =>
          /\ Len(show.slides) \in 1..6
          /\ show.currentSlideIndex = firings
          /\ firings < Len(show.slides))
  /\ [][(show.isPlaying /\ firings' = firings + 1) =>
          IF show.currentSlideIndex < Len(show.slides) - 1
            THEN /\ show'.isPlaying
                 /\ show'.currentSlideIndex = show.currentSlideIndex + 1
                 /\ show'.slides = show.slides
            ELSE /\ ~show'.isPlaying
                 /\ show'.currentSlideIndex = 0
                 /\ firings' = Len(show.slides)]_vars
  /\ (show.isPlaying ~> ~show.isPlaying)

\* C15 witness: six slides were played through by six timers.
C15_PlayedSix ==
  /\ ~show.isPlaying
  /\ stopped = "finish"
  /\ firings = 6
  /\ Len(show.slides) = 6
  /\ show.currentSlideIndex = 0
  /\ show.statusMessage = StatusFinished

\* C16: at most one timer is pending, and none while the slideshow does not
\* play (stopped, cleared, finished or unmounted); the index shown goes up
\* only by one, while playing, by a timer that fires.
C16_OneTimer ==
  /\ [](/\ Cardinality(scheduled) <= 1
        /\ ~show.isPlaying => scheduled = {}
        /\ activeView # "slideshow-generator" => scheduled = {})
  /\ [][show'.currentSlideIndex > show.currentSlideIndex =>
          /\ show.isPlaying
          /\ firings' = firings + 1
          /\ show'.currentSlideIndex = show.currentSlideIndex + 1]_vars

\* C16 witness: the slideshow was cleared while it played, after its first
\* slide, and no timer is left.
C16_ClearedWhilePlaying ==
  /\ stopped = "clear"
  /\ firings >= 1
  /\ ~show.isPlaying
  /\ scheduled = {}

\* the file choices handleFileChange rejects: no file, or a type that does
\* not start with image/
RejectedChoices == { files \in FileChoices : files = <<>> \/ ~IsImageType(files[1].type) }

\* a step makes a new call of the mounted view
NewEditCall == \E c \in edPending' \ edPending : c.live
NewHDCall == \E c \in hdPending' \ hdPending : c.live

\* every outstanding call carries validated arguments
C20_CallsValidated ==
  /\ \A c \in pending : c.message # <<>> /\ Trim(c.message) = c.message
  /\ \A c \in edPending :
       /\ c.imageFile # <<>>
       /\ c.imageFile[1].type[1] = "image/"
       /\ Trim(c.prompt) # <<>>
  /\ \A c \in hdPending : c.prompt # <<>> /\ Trim(c.prompt) = c.prompt

\* handleEditImage and handleGenerateImage, called in a state that fails
\* their validation, set the error text and nothing else, and call nothing
C20_FailureSetsErrorOnly ==
  /\ (editor.selectedFile = <<>> \/ Trim(editor.imagePrompt) = <<>>)
       => handleEditImage(editor)
            = [view |-> [editor EXCEPT !.error = EditValidationError], calls |-> {}]
  /\ ~hd.apiKeySelected
       => handleGenerateImage(hd)
            = [view |-> [hd EXCEPT !.error = HDSelectKeyError], calls |-> {}]
  /\ (hd.apiKeySelected /\ Trim(hd.prompt) = <<>>)
       => handleGenerateImage(hd)
            = [view |-> [hd EXCEPT !.error = HDValidationError], calls |-> {}]

\* a rejected file choice sets the error text and drops the selected file
\* and its preview; the prompt, the loading flag and the previous result stay
C20_RejectedFileDropsFile ==
  \A files \in RejectedChoices :
    handleFileChange(editor, files)
      = [editor EXCEPT !.error = EditFileError, !.selectedFile = <<>>,
                       !.originalImageUrl = <<>>]

\* a call is made only from a state that passes the validation; a chat
\* submission is accepted only with non-empty trimmed input
C20_CallOnlyWhenValid ==
  /\ submits' # submits => Trim(inputMessage) # <<>> /\ ~loading
  /\ Calls(pending') # Calls(pending) /\ Cardinality(pending') > Cardinality(pending)
       => submits' # submits
  /\ NewEditCall =>
       /\ editor.selectedFile # <<>>
       /\ editor.selectedFile[1].type[1] = "image/"
       /\ Trim(editor.imagePrompt) # <<>>
  /\ NewHDCall => hd.apiKeySelected /\ Trim(hd.prompt) # <<>>

LiveHDSettle ==
  /\ activeView' = activeView
  /\ \E c \in hdPending : c.live /\ hdPending' = hdPending \ {c}

\* C21: after generateHDImageWithGemini returned an error containing 'API key
\* issue', apiKeySelected is false and handleGenerateImage issues no request
\* until handleSelectApiKey has completed; a generation that settles in any
\* other way leaves apiKeySelected as it was
C21_GatedUntilSelect ==
  /\ [](keyIssue => ~hd.apiKeySelected)
  /\ [][NewHDCall => ~keyIssue]_vars
  /\ [][(LiveHDSettle /\ ~Includes(hd'.error, ApiKeyMarker))
         => hd'.apiKeySelected = hd.apiKeySelected]_vars

\* a step in which an edit of the mounted view settles
LiveEditSettle ==
  /\ activeView' = activeView
  /\ \E c \in edPending : c.live /\ edPending' = edPending \ {c}

\* C22: an edited image on display is the gateway's result for the file that
\* is selected; a result that arrives after another file (or an invalid one)
\* was picked while the request was in flight is not shown against the new
\* selection
C22_ShownForSelected ==
  /\ [][(LiveEditSettle /\ editor'.editedImageUrl # <<>>)
         => editedFor' = editor'.selectedFile]_vars
  /\ [](editor.editedImageUrl # <<>> => editedFor = editor.selectedFile)

\* the transcript before the submission of a call
PriorTurns(call) == SubSeq(call.history, 1, call.base)

\* C23: what chatWithBhaii presents to the remote model for a submission holds
\* the submitted message once: the role-tagged history is that of the turns
\* before the submission, one unit per turn and in their order, and the
\* message goes out as the outgoing message, prefixed with the name when
\* there is one, while the transcript keeps the text without the prefix
C23_MessageOnce ==
  \A c \in pending :
    LET sent == ChatSent(c.message, c.history, c.userName)
    IN /\ sent.history = FormatHistory(PriorTurns(c))
       /\ sent.message = IF c.userName # <<>>
                            THEN c.userName \o <<" says: ">> \o c.message
                            ELSE c.message
       /\ c.history[c.base + 1].sender = "user"
       /\ c.history[c.base + 1].text = c.message

====
